---- MODULE Spec2Model ----
(***************************************************************************)
(* Model of src/src/commands/grep/fast-grep.ts: isBinaryChunk, the         *)
(* byte-level literal scanners, the whole-buffer matchers                  *)
(* grepBufferLiteral (with its invert mode) and grepBufferRegex, and the   *)
(* stream driver grepStream.                                               *)
(*                                                                         *)
(* Byte buffers (Uint8Array) are sequences of integers 0..255; offsets are *)
(* 0-based as in the source, so chunk[i] of the source is At(chunk, i).    *)
(* JavaScript strings are sequences of UTF-16 code units.                  *)
(***************************************************************************)
EXTENDS Integers, Sequences, FiniteSets, TLC

VARIABLES
    input,        \* all the bytes the source will deliver / the buffer passed to a direct call
    options,      \* the FastGrepOptions of the call
    needle,       \* the pattern bytes of a direct call of a scanner
    pc,           \* "idle"; grepStream: "reading", "done", "failed"; direct calls:
                  \* "returned", "repeated", "found", "foundIgnoreCase", "classified";
                  \* the exec loop of onlyMatching: "extracting", "extracted"
    fed,          \* number of bytes of input the reader has delivered so far
    locked,       \* the stream's reader lock is held
    buffer,       \* grepStream: accumulation buffer
    lineOffset,   \* grepStream: lineOffset
    matchCount,   \* grepStream: matchCount
    delivered,    \* the results passed to onResult, in order
    early,        \* grepStream returned from inside the loop over a complete region
    ret,          \* the value grepStream resolved with, or NoValue
    out,          \* the value a direct call returned (the results pushed so far, in
                  \* the exec loop of onlyMatching), or NoValue
    lastIndex,    \* options.regex.lastIndex, the cursor of the RegExp object
    prev,         \* the results the first of two successive direct calls returned and
                  \* the lastIndex the second call found, or NoValue
    drains,       \* grepStream: number of matching passes over the unterminated remainder
    uncapped      \* the results a second call of grepStream, with maxCount = 0 and fed
                  \* the same chunks, has passed to its onResult so far

vars == <<input, options, needle, pc, fed, locked, buffer, lineOffset,
          matchCount, delivered, early, ret, out, lastIndex, prev, drains, uncapped>>

----------------------------------------------------------------------------
(* Bounds of the model *)

\* longest buffer of a direct call, counted in pieces of InputTokens
MaxLen == 4

\* longest streamed input of newlines and letters, counted in pieces of StreamTokens
MaxStreamLen == 4

\* longest streamed input that may hold U+FEFF, counted in pieces of InputTokens
MaxUtfLen == 3

\* largest maxCount option explored (0 means unbounded)
MaxCount == 2

\* longest chunk handed to a scanner directly
MaxScanLen == 3

\* longest pattern handed to a scanner directly
MaxNeedleLen == 2

\* how far the length of a chunk handed to isBinaryChunk, and the index of a zero
\* byte in it, may lie from 0 and from the 8192 bytes the function looks at
MaxTail == 2

\* longest line handed to the exec loop of onlyMatching, counted in pieces of
\* LineTokens
MaxLineLen == 3

\* most results the exec loop of onlyMatching is followed for
MaxFragments == 8

\* longest buffer of the calls that share one options object, counted in pieces of
\* StreamTokens
MaxReuseLen == 3

----------------------------------------------------------------------------
(* Constants and small helpers of the source *)

NEWLINE == 10

NoValue == [none |-> TRUE]

\* chunk[i] with the source's 0-based index
At(chunk, i) == chunk[i + 1]

\* chunk.slice(start, end)
Slice(chunk, start, end) == SubSeq(chunk, start + 1, end)

\* Uint8Array.prototype.indexOf(value, fromIndex): first index >= fromIndex, or -1
indexOf(chunk, value, fromIndex) ==
    LET hits == {i \in fromIndex..(Len(chunk) - 1) : At(chunk, i) = value}
    IN IF hits = {} THEN -1 ELSE CHOOSE i \in hits : \A j \in hits : i <= j

\* faulty variant of lastIndexOf: the first index is returned
lastIndexOf_first(chunk, value) == indexOf(chunk, value, 0)

\* Uint8Array.prototype.lastIndexOf(value): last index, or -1
lastIndexOf(chunk, value) ==
    LET hits == {i \in 0..(Len(chunk) - 1) : At(chunk, i) = value}
    IN IF hits = {} THEN -1 ELSE CHOOSE i \in hits : \A j \in hits : i >= j

\* the number of leading bytes isBinaryChunk looks at
CheckLimit == 8192

\* faulty variant of checkLength: the whole chunk is looked at
checkLength_uncapped(chunk) == Len(chunk)

\* const checkLength = Math.min(chunk.length, 8192)
checkLength(chunk) == IF Len(chunk) < CheckLimit THEN Len(chunk) ELSE CheckLimit

\* the for loop returns true at the first zero byte among the indices below
\* checkLength, and false is returned when the loop ends without one
isBinaryChunk(chunk) ==
    \E i \in 0..(checkLength(chunk) - 1) : At(chunk, i) = 0

\* faulty variant of toLowerAscii: also folds the Latin-1 capitals 0xC0..0xDE
toLowerAscii_foldsLatin1(byte) ==
    IF (byte >= 65 /\ byte <= 90) \/ (byte >= 192 /\ byte <= 222) THEN byte + 32 ELSE byte

toLowerAscii(byte) ==
    IF byte >= 65 /\ byte <= 90 THEN byte + 32 ELSE byte

isWordByte(byte) ==
    \/ (byte >= 48 /\ byte <= 57)
    \/ (byte >= 65 /\ byte <= 90)
    \/ (byte >= 97 /\ byte <= 122)
    \/ byte = 95

\* faulty variant of isWordBoundary: the byte after the match is not looked at
isWordBoundary_noAfter(chunk, pos, patternLen) ==
    pos = 0 \/ ~isWordByte(At(chunk, pos - 1))

isWordBoundary(chunk, pos, patternLen) ==
    LET beforeOk == pos = 0 \/ ~isWordByte(At(chunk, pos - 1))
        afterOk == pos + patternLen >= Len(chunk)
                   \/ ~isWordByte(At(chunk, pos + patternLen))
    IN beforeOk /\ afterOk

RECURSIVE countNewlinesFrom(_, _, _)
countNewlinesFrom(chunk, i, end) ==
    IF i < end
    THEN (IF At(chunk, i) = NEWLINE THEN 1 ELSE 0) + countNewlinesFrom(chunk, i + 1, end)
    ELSE 0

\* faulty variant of countNewlines: the first byte of the range is skipped
countNewlines_skipFirst(chunk, start, end) == countNewlinesFrom(chunk, start + 1, end)

countNewlines(chunk, start, end) == countNewlinesFrom(chunk, start, end)

----------------------------------------------------------------------------
(* Literal scanners *)

\* the inner loop over j of findPatternPositions: no mismatch at candidate i
RECURSIVE innerMatch(_, _, _, _)
innerMatch(chunk, pattern, i, j) ==
    IF j < Len(pattern)
    THEN IF At(chunk, i + j) # At(pattern, j) THEN FALSE
         ELSE innerMatch(chunk, pattern, i, j + 1)
    ELSE TRUE

\* the outer loop of findPatternPositions from candidate i up to searchEnd
RECURSIVE scanFrom(_, _, _, _)
scanFrom(chunk, pattern, i, searchEnd) ==
    IF i < searchEnd
    THEN (IF At(chunk, i) # At(pattern, 0) THEN <<>>
          ELSE IF innerMatch(chunk, pattern, i, 1) THEN <<i>> ELSE <<>>)
         \o scanFrom(chunk, pattern, i + 1, searchEnd)
    ELSE <<>>

\* faulty variant of findPatternPositions: searchEnd is one short, so the last
\* candidate offset is never tried
findPatternPositions_shortEnd(chunk, pattern) ==
    IF Len(pattern) = 0 \/ Len(chunk) < Len(pattern) THEN <<>>
    ELSE scanFrom(chunk, pattern, 0, Len(chunk) - Len(pattern))

findPatternPositions(chunk, pattern) ==
    IF Len(pattern) = 0 \/ Len(chunk) < Len(pattern) THEN <<>>
    ELSE scanFrom(chunk, pattern, 0, Len(chunk) - Len(pattern) + 1)

\* the inner loop over j of findPatternPositionsIgnoreCase
RECURSIVE innerMatchIgnoreCase(_, _, _, _)
innerMatchIgnoreCase(chunk, lowerPattern, i, j) ==
    IF j < Len(lowerPattern)
    THEN IF toLowerAscii(At(chunk, i + j)) # At(lowerPattern, j) THEN FALSE
         ELSE innerMatchIgnoreCase(chunk, lowerPattern, i, j + 1)
    ELSE TRUE

RECURSIVE scanFromIgnoreCase(_, _, _, _)
scanFromIgnoreCase(chunk, lowerPattern, i, searchEnd) ==
    IF i < searchEnd
    THEN (IF toLowerAscii(At(chunk, i)) # At(lowerPattern, 0) THEN <<>>
          ELSE IF innerMatchIgnoreCase(chunk, lowerPattern, i, 1) THEN <<i>> ELSE <<>>)
         \o scanFromIgnoreCase(chunk, lowerPattern, i + 1, searchEnd)
    ELSE <<>>

findPatternPositionsIgnoreCase(chunk, pattern) ==
    IF Len(pattern) = 0 \/ Len(chunk) < Len(pattern) THEN <<>>
    ELSE LET lowerPattern == [i \in 1..Len(pattern) |-> toLowerAscii(pattern[i])]
         IN scanFromIgnoreCase(chunk, lowerPattern, 0, Len(chunk) - Len(pattern) + 1)

----------------------------------------------------------------------------
(* Text conversions: new TextDecoder('utf-8', {fatal: false}) and           *)
(* new TextEncoder(), as the platform defines them (WHATWG Encoding).       *)

\* a code point as the UTF-16 code units of a JavaScript string
CodeUnits(cp) ==
    IF cp > 65535
    THEN <<55296 + ((cp - 65536) \div 1024), 56320 + ((cp - 65536) % 1024)>>
    ELSE <<cp>>

\* the UTF-8 decoder's handler, run over bytes[i..]; malformed input yields U+FFFD
RECURSIVE utf8Decode(_, _, _, _, _, _, _)
utf8Decode(bytes, i, needed, seen, lower, upper, cp) ==
    IF i >= Len(bytes)
    THEN (IF needed # 0 THEN <<65533>> ELSE <<>>)
    ELSE LET b == At(bytes, i) IN
         IF needed = 0
         THEN IF b <= 127
              THEN <<b>> \o utf8Decode(bytes, i + 1, 0, 0, 128, 191, 0)
              ELSE IF b >= 194 /\ b <= 223
              THEN utf8Decode(bytes, i + 1, 1, 0, 128, 191, b % 32)
              ELSE IF b >= 224 /\ b <= 239
              THEN utf8Decode(bytes, i + 1, 2, 0,
                              IF b = 224 THEN 160 ELSE 128,
                              IF b = 237 THEN 159 ELSE 191, b % 16)
              ELSE IF b >= 240 /\ b <= 244
              THEN utf8Decode(bytes, i + 1, 3, 0,
                              IF b = 240 THEN 144 ELSE 128,
                              IF b = 244 THEN 143 ELSE 191, b % 8)
              ELSE <<65533>> \o utf8Decode(bytes, i + 1, 0, 0, 128, 191, 0)
         ELSE IF b < lower \/ b > upper
              THEN <<65533>> \o utf8Decode(bytes, i, 0, 0, 128, 191, 0)
              ELSE IF seen + 1 # needed
              THEN utf8Decode(bytes, i + 1, needed, seen + 1, 128, 191, cp * 64 + (b % 64))
              ELSE CodeUnits(cp * 64 + (b % 64))
                   \o utf8Decode(bytes, i + 1, 0, 0, 128, 191, 0)

\* textDecoder.decode(bytes): ignoreBOM is false, so one leading U+FEFF is dropped
decode(bytes) ==
    LET s == utf8Decode(bytes, 0, 0, 0, 128, 191, 0)
    IN IF Len(s) > 0 /\ s[1] = 65279 THEN Tail(s) ELSE s

\* textEncoder.encode(str) from index i (1-based); a lone surrogate becomes U+FFFD
RECURSIVE utf8Encode(_, _)
utf8Encode(str, i) ==
    IF i > Len(str) THEN <<>>
    ELSE LET cu == str[i] IN
         IF cu < 128 THEN <<cu>> \o utf8Encode(str, i + 1)
         ELSE IF cu < 2048
         THEN <<192 + (cu \div 64), 128 + (cu % 64)>> \o utf8Encode(str, i + 1)
         ELSE IF cu >= 55296 /\ cu <= 56319 /\ i < Len(str)
                 /\ str[i + 1] >= 56320 /\ str[i + 1] <= 57343
         THEN LET c == 65536 + (cu - 55296) * 1024 + (str[i + 1] - 56320)
              IN <<240 + (c \div 262144), 128 + ((c \div 4096) % 64),
                   128 + ((c \div 64) % 64), 128 + (c % 64)>>
                 \o utf8Encode(str, i + 2)
         ELSE IF cu >= 55296 /\ cu <= 57343
         THEN <<239, 191, 189>> \o utf8Encode(str, i + 1)
         ELSE <<224 + (cu \div 4096), 128 + ((cu \div 64) % 64), 128 + (cu % 64)>>
              \o utf8Encode(str, i + 1)

encode(str) == utf8Encode(str, 1)

----------------------------------------------------------------------------
(* Boundary utilities *)

\* faulty variant of lineStartAt: the start is not walked back to the line's first byte
lineStartAt_noWalk(chunk, start) == start

RECURSIVE lineStartAt(_, _)
lineStartAt(chunk, start) ==
    IF start > 0 /\ At(chunk, start - 1) # NEWLINE THEN lineStartAt(chunk, start - 1)
    ELSE start

RECURSIVE lineEndAt(_, _)
lineEndAt(chunk, end) ==
    IF end < Len(chunk) /\ At(chunk, end) # NEWLINE THEN lineEndAt(chunk, end + 1)
    ELSE end

extractLineAt(chunk, pos) ==
    LET start == lineStartAt(chunk, pos)
        end == lineEndAt(chunk, pos)
    IN [start |-> start, end |-> end, content |-> decode(Slice(chunk, start, end))]

\* faulty variant of capReached: stops one result early
capReached_oneEarly(opts, count) == opts.maxCount > 0 /\ count + 1 >= opts.maxCount

\* faulty variant of capReached: stops one result late
capReached_offByOne(opts, count) == opts.maxCount > 0 /\ count > opts.maxCount

\* options.maxCount > 0 && count >= options.maxCount
capReached(opts, count) == opts.maxCount > 0 /\ count >= opts.maxCount

----------------------------------------------------------------------------
(* grepBufferLiteral, forward mode *)

\* faulty variant of fastForward: the line start and number are never advanced
fastForward_noAdvance(buf, pos, currentLineStart, currentLineNum) ==
    [start |-> currentLineStart, num |-> currentLineNum]

\* the while loop that fast-forwards to the line containing pos
RECURSIVE fastForward(_, _, _, _)
fastForward(buf, pos, currentLineStart, currentLineNum) ==
    IF currentLineStart < pos
    THEN LET nlPos == indexOf(buf, NEWLINE, currentLineStart) IN
         IF nlPos = -1 \/ nlPos >= pos
         THEN [start |-> currentLineStart, num |-> currentLineNum]
         ELSE fastForward(buf, pos, nlPos + 1, currentLineNum + 1)
    ELSE [start |-> currentLineStart, num |-> currentLineNum]

\* faulty variant of mapHas: a line is never found in the Map, so every accepted
\* position adds an entry
mapHas_never(lineMatches, n) == FALSE

\* lineMatches.has(n) for the insertion-ordered Map kept as a sequence of entries
mapHas(lineMatches, n) == \E e \in 1..Len(lineMatches) : lineMatches[e].lineNumber = n

\* the for loop over positions; k is the 1-based index of the next position
RECURSIVE literalLoop(_, _, _, _, _, _, _)
literalLoop(buf, opts, positions, k, currentLineStart, currentLineNum, lineMatches) ==
    IF k > Len(positions) THEN lineMatches
    ELSE LET pos == positions[k]
             cur == fastForward(buf, pos, currentLineStart, currentLineNum)
             patternLen == Len(encode(opts.pattern))
         IN IF opts.wholeWord /\ ~isWordBoundary(buf, pos, patternLen)
            THEN literalLoop(buf, opts, positions, k + 1, cur.start, cur.num, lineMatches)
            ELSE LET line == extractLineAt(buf, pos) IN
                 IF opts.lineRegexp /\ line.content # opts.pattern
                 THEN literalLoop(buf, opts, positions, k + 1, cur.start, cur.num, lineMatches)
                 ELSE LET entered ==
                              IF mapHas(lineMatches, cur.num) THEN lineMatches
                              ELSE Append(lineMatches,
                                          [lineNumber |-> cur.num, content |-> line.content])
                      IN IF capReached(opts, Len(entered)) THEN entered
                         ELSE literalLoop(buf, opts, positions, k + 1,
                                          cur.start, cur.num, entered)

\* the materialisation loop over the Map's entries
materialize(opts, lineMatches) ==
    [e \in 1..Len(lineMatches) |->
        [lineNumber |-> lineMatches[e].lineNumber,
         content |-> IF opts.onlyMatching THEN opts.pattern ELSE lineMatches[e].content]]

----------------------------------------------------------------------------
(* grepBufferInvert *)

\* the inner while loop: consume the positions before actualEnd, marking lineNum
RECURSIVE invertInner(_, _, _, _, _, _)
invertInner(matchPositions, posIdx, lineStart, actualEnd, lineNum, matchSet) ==
    IF posIdx < Len(matchPositions) /\ At(matchPositions, posIdx) < actualEnd
    THEN invertInner(matchPositions, posIdx + 1, lineStart, actualEnd, lineNum,
                     IF At(matchPositions, posIdx) >= lineStart
                     THEN matchSet \cup {lineNum} ELSE matchSet)
    ELSE [posIdx |-> posIdx, matchSet |-> matchSet]

\* the first pass: which line numbers have matches
RECURSIVE invertMark(_, _, _, _, _, _)
invertMark(buf, matchPositions, lineStart, lineNum, posIdx, matchSet) ==
    IF lineStart < Len(buf) /\ posIdx < Len(matchPositions)
    THEN LET lineEnd == indexOf(buf, NEWLINE, lineStart)
             actualEnd == IF lineEnd = -1 THEN Len(buf) ELSE lineEnd
             inner == invertInner(matchPositions, posIdx, lineStart, actualEnd,
                                  lineNum, matchSet)
         IN invertMark(buf, matchPositions, actualEnd + 1, lineNum + 1,
                       inner.posIdx, inner.matchSet)
    ELSE matchSet

\* the second pass: collect the lines that are not in matchSet
RECURSIVE invertCollect(_, _, _, _, _, _)
invertCollect(buf, opts, matchSet, lineStart, lineNum, results) ==
    IF lineStart < Len(buf)
    THEN LET lineEnd == indexOf(buf, NEWLINE, lineStart)
             actualEnd == IF lineEnd = -1 THEN Len(buf) ELSE lineEnd
         IN IF lineNum \notin matchSet
            THEN LET pushed == Append(results,
                                      [lineNumber |-> lineNum,
                                       content |-> decode(Slice(buf, lineStart, actualEnd))])
                 IN IF capReached(opts, Len(pushed)) THEN pushed
                    ELSE invertCollect(buf, opts, matchSet, actualEnd + 1, lineNum + 1, pushed)
            ELSE invertCollect(buf, opts, matchSet, actualEnd + 1, lineNum + 1, results)
    ELSE results

grepBufferInvert(buf, matchPositions, opts) ==
    invertCollect(buf, opts, invertMark(buf, matchPositions, 0, 1, 0, {}), 0, 1, <<>>)

----------------------------------------------------------------------------
(* grepBufferLiteral *)

grepBufferLiteral(buf, opts) ==
    LET patternBytes == encode(opts.pattern)
        positions == IF opts.ignoreCase
                     THEN findPatternPositionsIgnoreCase(buf, patternBytes)
                     ELSE findPatternPositions(buf, patternBytes)
    IN IF opts.invertMatch
       THEN grepBufferInvert(buf, positions, opts)
       ELSE materialize(opts, literalLoop(buf, opts, positions, 1, 0, 1, <<>>))

----------------------------------------------------------------------------
(* The pattern evaluator options.regex: a RegExp object.  A regex is a      *)
(* record [kind, lit, global]: kind "lit" matches the code units lit,       *)
(* kind "star" matches the longest (possibly empty) run of lit[1].          *)
(* execAll, the exec loop of onlyMatching run as a whole, does not end for a *)
(* regex without the g flag that matches: Regexes holds global regexes, and *)
(* a regex without the g flag meets that loop only one exec at a time, in   *)
(* ExtractStep.                                                             *)

RECURSIVE runLength(_, _, _)
runLength(line, unit, i) ==
    IF i < Len(line) /\ line[i + 1] = unit THEN 1 + runLength(line, unit, i + 1) ELSE 0

\* length of the match of regex that starts at index i of line, or -1
matchLenAt(regex, line, i) ==
    IF regex.kind = "star" THEN runLength(line, regex.lit[1], i)
    ELSE IF i + Len(regex.lit) <= Len(line)
            /\ \A j \in 1..Len(regex.lit) : line[i + j] = regex.lit[j]
         THEN Len(regex.lit)
         ELSE -1

\* RegExp.prototype.exec(line) with the given lastIndex: the leftmost match at or
\* after the start index; a global regex starts at lastIndex and leaves lastIndex
\* at the end of the match (0 on failure), any other starts at 0 and keeps it
regexExec(regex, line, cursor) ==
    LET from == IF regex.global THEN cursor ELSE 0
        hits == {i \in from..Len(line) : matchLenAt(regex, line, i) >= 0}
    IN IF hits = {}
       THEN [found |-> FALSE, index |-> -1, length |-> 0,
             lastIndex |-> IF regex.global THEN 0 ELSE cursor]
       ELSE LET i == CHOOSE h \in hits : \A g \in hits : h <= g
                n == matchLenAt(regex, line, i)
            IN [found |-> TRUE, index |-> i, length |-> n,
                lastIndex |-> IF regex.global THEN i + n ELSE cursor]

\* faulty variant of resetLastIndex: the cursor is left where the last use put it
resetLastIndex_kept(cursor) == cursor

\* regex.lastIndex = 0
resetLastIndex(cursor) == 0

\* regex.test(line) with the given lastIndex: like exec, the outcome as a boolean
regexTest(regex, line, cursor) == regexExec(regex, line, cursor)

----------------------------------------------------------------------------
(* grepBufferRegex *)

\* content.split('\n') from index i (1-based) with the current piece cur
RECURSIVE splitLines(_, _, _)
splitLines(content, i, cur) ==
    IF i > Len(content) THEN <<cur>>
    ELSE IF content[i] = NEWLINE THEN <<cur>> \o splitLines(content, i + 1, <<>>)
    ELSE splitLines(content, i + 1, Append(cur, content[i]))

\* faulty variant of regexLines: the empty piece after a final newline is kept
regexLines_noPop(content) == splitLines(content, 1, <<>>)

\* lines after the pop() of the empty piece that a final newline leaves
regexLines(content) ==
    LET lines == splitLines(content, 1, <<>>)
    IN IF Len(content) > 0 /\ content[Len(content)] = NEWLINE
       THEN SubSeq(lines, 1, Len(lines) - 1)
       ELSE lines

\* one turn of the exec loop of onlyMatching on the match m that exec returned:
\* results.push({ lineNumber: i + 1, content: match[0] }), and lastIndex++ after an
\* empty match
execPush(line, m, lineNumber, results) ==
    [results |-> Append(results, [lineNumber |-> lineNumber,
                                  content |-> SubSeq(line, m.index + 1, m.index + m.length)]),
     lastIndex |-> IF m.length = 0 THEN m.lastIndex + 1 ELSE m.lastIndex]

\* the exec loop of onlyMatching from the given lastIndex, run until exec returns null
RECURSIVE execAll(_, _, _, _, _)
execAll(regex, line, cursor, lineNumber, results) ==
    LET m == regexExec(regex, line, cursor) IN
    IF ~m.found THEN [results |-> results, lastIndex |-> m.lastIndex]
    ELSE LET pushed == execPush(line, m, lineNumber, results)
         IN execAll(regex, line, pushed.lastIndex, lineNumber, pushed.results)

\* the for loop over lines; i is the source's 0-based line index and cursor the
\* lastIndex the regex object has when the iteration starts
RECURSIVE regexLoop(_, _, _, _, _, _)
regexLoop(lines, opts, i, matchCnt, results, cursor) ==
    IF i >= Len(lines) THEN [results |-> results, lastIndex |-> cursor]
    ELSE LET line == lines[i + 1]
             tested == regexTest(opts.regex, line, resetLastIndex(cursor))
             hasMatch == tested.found
         IN IF hasMatch # opts.invertMatch
            THEN LET pushed ==
                        IF opts.onlyMatching /\ ~opts.invertMatch
                        THEN execAll(opts.regex, line, resetLastIndex(tested.lastIndex),
                                     i + 1, results)
                        ELSE [results |-> Append(results,
                                                 [lineNumber |-> i + 1, content |-> line]),
                              lastIndex |-> tested.lastIndex]
                 IN IF capReached(opts, matchCnt + 1) THEN pushed
                    ELSE regexLoop(lines, opts, i + 1, matchCnt + 1,
                                   pushed.results, pushed.lastIndex)
            ELSE regexLoop(lines, opts, i + 1, matchCnt, results, tested.lastIndex)

\* one call of grepBufferRegex on a regex object whose lastIndex is cursor: the
\* results it returns and the lastIndex it leaves in the regex object
grepBufferRegexCall(buf, opts, cursor) ==
    regexLoop(regexLines(decode(buf)), opts, 0, 0, <<>>, cursor)

\* the results of grepBufferRegex on a regex object that has not been used before
grepBufferRegex(buf, opts) == grepBufferRegexCall(buf, opts, 0).results

----------------------------------------------------------------------------
(* grepStream *)

\* faulty variant of shifted: the region-local line number is passed on as it is
shifted_unshifted(result, offset) == result

\* { ...result, lineNumber: result.lineNumber + lineOffset }
shifted(result, offset) == [result EXCEPT !.lineNumber = @ + offset]

\* faulty variant of deliverLoop: the loop has no exit at the cap, every result of the
\* region is passed on
deliverLoop_noStop(results, i, offset, cnt, sent, opts) ==
    [sent |-> sent \o [k \in 1..Len(results) |-> shifted(results[k], offset)],
     matchCount |-> cnt + Len(results),
     capped |-> FALSE]

\* the for loop over the results of one region; i is the 1-based index of the next
\* result, cnt the running matchCount, sent the results passed to onResult so far
RECURSIVE deliverLoop(_, _, _, _, _, _)
deliverLoop(results, i, offset, cnt, sent, opts) ==
    IF i > Len(results) THEN [sent |-> sent, matchCount |-> cnt, capped |-> FALSE]
    ELSE LET sent2 == Append(sent, shifted(results[i], offset)) IN
         IF capReached(opts, cnt + 1)
         THEN [sent |-> sent2, matchCount |-> cnt + 1, capped |-> TRUE]
         ELSE deliverLoop(results, i + 1, offset, cnt + 1, sent2, opts)

\* options.isLiteral ? grepBufferLiteral(region, options) : grepBufferRegex(region, options)
\* on a regex object whose lastIndex is cursor: the results and the lastIndex left
matchRegionCall(region, opts, cursor) ==
    IF opts.isLiteral
    THEN [results |-> grepBufferLiteral(region, opts), lastIndex |-> cursor]
    ELSE grepBufferRegexCall(region, opts, cursor)

\* the results of the same on a regex object that has not been used before
matchRegion(region, opts) ==
    IF opts.isLiteral THEN grepBufferLiteral(region, opts) ELSE grepBufferRegex(region, opts)

\* const reader = stream.getReader() and the initial values of the locals
StartStream ==
    /\ pc = "idle"
    /\ pc' = "reading"
    /\ locked' = TRUE
    /\ buffer' = <<>>
    /\ lineOffset' = 0
    /\ matchCount' = 0
    /\ UNCHANGED <<input, options, needle, fed, delivered, early, ret, out,
                   lastIndex, prev, drains, uncapped>>

\* the for loop over the results of one region in the second call, the one with
\* maxCount = 0: it is at the same lineOffset, and sent are its results so far
uncappedLoop(region, opts, offset, sent) ==
    LET all == [opts EXCEPT !.maxCount = 0]
    IN deliverLoop(matchRegion(region, all), 1, offset, Len(sent), sent, all).sent

\* one iteration of the while loop in which reader.read() delivers a chunk of n bytes
ReadChunk ==
    /\ pc = "reading"
    /\ \E n \in 0..(Len(input) - fed) :
        LET value == Slice(input, fed, fed + n)
            newBuffer == buffer \o value
            lastNewline == lastIndexOf(newBuffer, NEWLINE)
            complete == Slice(newBuffer, 0, lastNewline + 1)
            matched == matchRegionCall(complete, options, lastIndex)
            d == deliverLoop(matched.results, 1, lineOffset,
                             matchCount, delivered, options)
        IN /\ fed' = fed + n
           /\ IF lastNewline = -1
              THEN /\ buffer' = newBuffer
                   /\ UNCHANGED <<pc, locked, lineOffset, matchCount, delivered, early,
                                  ret, lastIndex, uncapped>>
              ELSE /\ buffer' = Slice(newBuffer, lastNewline + 1, Len(newBuffer))
                   /\ uncapped' = uncappedLoop(complete, options, lineOffset, uncapped)
                   /\ lastIndex' = matched.lastIndex
                   /\ delivered' = d.sent
                   /\ matchCount' = d.matchCount
                   /\ IF d.capped
                      THEN /\ ret' = [matchCount |-> d.matchCount,
                                      lineCount |-> lineOffset
                                                    + countNewlines(complete, 0, Len(complete))]
                           /\ early' = TRUE
                           /\ locked' = FALSE
                           /\ pc' = "done"
                           /\ UNCHANGED lineOffset
                      ELSE /\ lineOffset' = lineOffset
                                            + countNewlines(complete, 0, Len(complete))
                           /\ UNCHANGED <<pc, locked, early, ret>>
    /\ UNCHANGED <<input, options, needle, out, prev, drains>>

\* faulty variant of ReadDone: the remaining buffer is not matched at end-of-data
ReadDone_noDrain ==
    /\ pc = "reading"
    /\ fed = Len(input)
    /\ ret' = [matchCount |-> matchCount,
               lineCount |-> lineOffset + (IF Len(buffer) > 0 THEN 1 ELSE 0)]
    /\ locked' = FALSE
    /\ pc' = "done"
    /\ UNCHANGED <<input, options, needle, fed, buffer, lineOffset, matchCount, delivered,
                   early, out, lastIndex, prev, drains, uncapped>>

\* the iteration in which reader.read() signals done: the remaining buffer is
\* matched, the loop is left, the finally block releases the lock, the value returns
ReadDone ==
    /\ pc = "reading"
    /\ fed = Len(input)
    /\ LET matched == matchRegionCall(buffer, options, lastIndex)
           d == IF Len(buffer) > 0
                THEN deliverLoop(matched.results, 1, lineOffset,
                                 matchCount, delivered, options)
                ELSE [sent |-> delivered, matchCount |-> matchCount, capped |-> FALSE]
       IN /\ delivered' = d.sent
          /\ matchCount' = d.matchCount
          /\ lastIndex' = IF Len(buffer) > 0 THEN matched.lastIndex ELSE lastIndex
          /\ drains' = IF Len(buffer) > 0 THEN drains + 1 ELSE drains
          /\ uncapped' = IF Len(buffer) > 0
                         THEN uncappedLoop(buffer, options, lineOffset, uncapped)
                         ELSE uncapped
          /\ ret' = [matchCount |-> d.matchCount,
                     lineCount |-> lineOffset + (IF Len(buffer) > 0 THEN 1 ELSE 0)]
    /\ locked' = FALSE
    /\ pc' = "done"
    /\ UNCHANGED <<input, options, needle, fed, buffer, lineOffset, early, out, prev>>

\* faulty variant of ReadFail: no finally block, the lock stays held
ReadFail_keepsLock ==
    /\ pc = "reading"
    /\ pc' = "failed"
    /\ UNCHANGED <<input, options, needle, fed, locked, buffer, lineOffset, matchCount,
                   delivered, early, ret, out, lastIndex, prev, drains, uncapped>>

\* reader.read() rejects: the finally block releases the lock and the failure
\* propagates to the caller
ReadFail ==
    /\ pc = "reading"
    /\ pc' = "failed"
    /\ locked' = FALSE
    /\ UNCHANGED <<input, options, needle, fed, buffer, lineOffset, matchCount,
                   delivered, early, ret, out, lastIndex, prev, drains, uncapped>>

----------------------------------------------------------------------------
(* Direct calls of the exported whole-buffer functions *)

CallLiteral ==
    /\ pc = "idle"
    /\ options.isLiteral
    /\ out' = grepBufferLiteral(input, options)
    /\ pc' = "returned"
    /\ UNCHANGED <<input, options, needle, fed, locked, buffer, lineOffset, matchCount,
                   delivered, early, ret, lastIndex, prev, drains, uncapped>>

CallRegex ==
    /\ pc = "idle"
    /\ ~options.isLiteral
    /\ LET call == grepBufferRegexCall(input, options, lastIndex)
       IN /\ out' = call.results
          /\ lastIndex' = call.lastIndex
    /\ pc' = "returned"
    /\ UNCHANGED <<input, options, needle, fed, locked, buffer, lineOffset, matchCount,
                   delivered, early, ret, prev, drains, uncapped>>

CallFind ==
    /\ pc = "idle"
    /\ out' = findPatternPositions(input, needle)
    /\ pc' = "found"
    /\ UNCHANGED <<input, options, needle, fed, locked, buffer, lineOffset, matchCount,
                   delivered, early, ret, lastIndex, prev, drains, uncapped>>

\* grepBufferRegex on a buffer of one line that is selected, up to the exec loop of
\* onlyMatching: the test of the line, and regex.lastIndex = 0 before the loop
ExtractStart ==
    /\ pc = "idle"
    /\ options.onlyMatching /\ ~options.invertMatch
    /\ LET line == regexLines(decode(input))[1]
           tested == regexTest(options.regex, line, resetLastIndex(lastIndex))
       IN /\ tested.found
          /\ lastIndex' = resetLastIndex(tested.lastIndex)
    /\ out' = <<>>
    /\ pc' = "extracting"
    /\ UNCHANGED <<input, options, needle, fed, locked, buffer, lineOffset, matchCount,
                   delivered, early, ret, prev, drains, uncapped>>

\* one evaluation of regex.exec(line) in the exec loop: the loop ends when it returns
\* null, and otherwise its body runs
ExtractStep ==
    /\ pc = "extracting"
    /\ LET line == regexLines(decode(input))[1]
           m == regexExec(options.regex, line, lastIndex)
       IN IF ~m.found
          THEN /\ lastIndex' = m.lastIndex
               /\ pc' = "extracted"
               /\ UNCHANGED out
          ELSE /\ Len(out) < MaxFragments
               /\ out' = execPush(line, m, 1, out).results
               /\ lastIndex' = execPush(line, m, 1, out).lastIndex
               /\ UNCHANGED pc
    /\ UNCHANGED <<input, options, needle, fed, locked, buffer, lineOffset, matchCount,
                   delivered, early, ret, prev, drains, uncapped>>

CallIsBinary ==
    /\ pc = "idle"
    /\ out' = isBinaryChunk(input)
    /\ pc' = "classified"
    /\ UNCHANGED <<input, options, needle, fed, locked, buffer, lineOffset, matchCount,
                   delivered, early, ret, lastIndex, prev, drains, uncapped>>

CallFindIgnoreCase ==
    /\ pc = "idle"
    /\ out' = findPatternPositionsIgnoreCase(input, needle)
    /\ pc' = "foundIgnoreCase"
    /\ UNCHANGED <<input, options, needle, fed, locked, buffer, lineOffset, matchCount,
                   delivered, early, ret, lastIndex, prev, drains, uncapped>>

----------------------------------------------------------------------------
(* Inputs *)

\* the pieces inputs are built from: a newline, the letter a, and the bytes of U+FEFF
InputTokens == {<<10>>, <<97>>, <<239, 187, 191>>}

\* the pieces of the inputs streamed on the literal path
StreamTokens == {<<10>>, <<97>>}

\* the concatenations of at most n pieces
RECURSIVE TokenStrings(_, _)
TokenStrings(tokens, n) ==
    IF n = 0 THEN {<<>>}
    ELSE LET shorter == TokenStrings(tokens, n - 1)
         IN shorter \cup {s \o t : s \in shorter, t \in tokens}

Inputs == TokenStrings(InputTokens, MaxLen)

StreamInputs == TokenStrings(StreamTokens, MaxStreamLen)

UtfInputs == TokenStrings(InputTokens, MaxUtfLen)

\* the buffers of the calls that share one options object
ReuseInputs == TokenStrings(StreamTokens, MaxReuseLen)

\* literal patterns: "a", "A", "aa" and "\na"
Patterns == {<<97>>, <<65>>, <<97, 97>>, <<10, 97>>}

\* /a/g and /a*/g
Regexes ==
    {[kind |-> "lit", lit |-> <<97>>, global |-> TRUE],
     [kind |-> "star", lit |-> <<97>>, global |-> TRUE]}

LiteralOptions ==
    [pattern : Patterns, regex : {[kind |-> "lit", lit |-> <<97>>, global |-> TRUE]},
     isLiteral : {TRUE}, ignoreCase : BOOLEAN, invertMatch : BOOLEAN,
     wholeWord : BOOLEAN, lineRegexp : BOOLEAN, maxCount : 0..MaxCount,
     onlyMatching : BOOLEAN]

\* grepBufferRegex reads only regex, invertMatch, onlyMatching and maxCount
RegexOptions ==
    [pattern : {<<97>>}, regex : Regexes,
     isLiteral : {FALSE}, ignoreCase : {FALSE}, invertMatch : BOOLEAN,
     wholeWord : {FALSE}, lineRegexp : {FALSE}, maxCount : 0..MaxCount,
     onlyMatching : BOOLEAN]

\* the regex path with /a/g, /a*/g and /a/ (no g flag: exec ignores lastIndex, so
\* the exec loop of onlyMatching is left out for it)
ReuseRegexOptions ==
    {o \in [pattern : {<<97>>},
            regex : Regexes \cup {[kind |-> "lit", lit |-> <<97>>, global |-> FALSE]},
            isLiteral : {FALSE}, ignoreCase : {FALSE}, invertMatch : BOOLEAN,
            wholeWord : {FALSE}, lineRegexp : {FALSE}, maxCount : 0..MaxCount,
            onlyMatching : BOOLEAN] :
        o.regex.global \/ ~o.onlyMatching \/ o.invertMatch}

\* the pieces of a line: the letter a and the bytes of U+FEFF
LineTokens == {<<97>>, <<239, 187, 191>>}

\* the regex path with onlyMatching, with /a/g, /a*/g and /a/ (no g flag)
ExtractOptions ==
    [pattern : {<<97>>},
     regex : Regexes \cup {[kind |-> "lit", lit |-> <<97>>, global |-> FALSE]},
     isLiteral : {FALSE}, ignoreCase : {FALSE}, invertMatch : {FALSE},
     wholeWord : {FALSE}, lineRegexp : {FALSE}, maxCount : 0..MaxCount,
     onlyMatching : {TRUE}]

\* chunk lengths and indices of zero bytes around 0 and around the 8192-byte limit
BinaryLengths == (0..MaxTail) \cup ((CheckLimit - MaxTail)..(CheckLimit + MaxTail))

\* the chunk of n bytes that is zero at the indices zeros and the letter a elsewhere
ChunkWithZeros(n, zeros) == [i \in 1..n |-> IF (i - 1) \in zeros THEN 0 ELSE 97]

\* chunks with no zero byte, with one, and with two
BinaryInputs ==
    {ChunkWithZeros(n, zeros) :
        n \in BinaryLengths,
        zeros \in {{}} \cup {{i, j} : i, j \in BinaryLengths \ {CheckLimit + MaxTail}}}

\* bytes for the scanners: A, a, and the non-ASCII pair 0xC1, 0xE1 that differs by 32
ScanBytes == {65, 97, 193, 225}

RECURSIVE ByteStrings(_)
ByteStrings(n) ==
    IF n = 0 THEN {<<>>}
    ELSE LET shorter == ByteStrings(n - 1)
         IN shorter \cup {s \o <<b>> : s \in shorter, b \in ScanBytes}

Start ==
    /\ pc = "idle"
    /\ fed = 0
    /\ locked = FALSE
    /\ buffer = <<>>
    /\ lineOffset = 0
    /\ matchCount = 0
    /\ delivered = <<>>
    /\ early = FALSE
    /\ ret = NoValue
    /\ out = NoValue
    /\ lastIndex = 0
    /\ prev = NoValue
    /\ drains = 0
    /\ uncapped = <<>>

\* any options over the inputs of newlines and letters, and the regex path (which
\* decodes whole regions) over the inputs that also hold U+FEFF
Init ==
    /\ \/ input \in StreamInputs /\ options \in LiteralOptions \cup RegexOptions
       \/ input \in UtfInputs /\ options \in RegexOptions
    /\ needle = <<>>
    /\ Start

\* a direct call: any options over the inputs of newlines, letters and U+FEFF
InitBuffer ==
    /\ input \in Inputs
    /\ options \in LiteralOptions \cup RegexOptions
    /\ needle = <<>>
    /\ Start

InitScan ==
    /\ input \in ByteStrings(MaxScanLen)
    /\ needle \in ByteStrings(MaxNeedleLen)
    /\ options \in {o \in LiteralOptions : o.pattern = <<97>> /\ o.maxCount = 0
                                           /\ ~o.ignoreCase /\ ~o.invertMatch
                                           /\ ~o.wholeWord /\ ~o.lineRegexp
                                           /\ ~o.onlyMatching}
    /\ Start

\* a buffer of one line for grepBufferRegex with onlyMatching
InitExtract ==
    /\ input \in TokenStrings(LineTokens, MaxLineLen)
    /\ options \in ExtractOptions
    /\ needle = <<>>
    /\ Start

\* one chunk for isBinaryChunk
InitBinary ==
    /\ input \in BinaryInputs
    /\ needle = <<>>
    /\ options \in {o \in LiteralOptions : o.pattern = <<97>> /\ o.maxCount = 0
                                           /\ ~o.ignoreCase /\ ~o.invertMatch
                                           /\ ~o.wholeWord /\ ~o.lineRegexp
                                           /\ ~o.onlyMatching}
    /\ Start

\* two calls on one buffer with one options object
InitReuse ==
    /\ input \in ReuseInputs
    /\ options \in LiteralOptions \cup ReuseRegexOptions
    /\ needle = <<>>
    /\ Start

\* a call on another buffer, between two calls on input, with the same options
\* object (and so the same regex object); its results are dropped
CallOther ==
    /\ pc = "returned"
    /\ \E other \in ReuseInputs :
          lastIndex' = matchRegionCall(other, options, lastIndex).lastIndex
    /\ UNCHANGED <<input, options, needle, pc, fed, locked, buffer, lineOffset,
                   matchCount, delivered, early, ret, out, prev, drains, uncapped>>

\* the second of two calls on input with the same options object
CallAgain ==
    /\ pc = "returned"
    /\ LET call == matchRegionCall(input, options, lastIndex)
       IN /\ out' = call.results
          /\ lastIndex' = call.lastIndex
    /\ prev' = [results |-> out, lastIndex |-> lastIndex]
    /\ pc' = "repeated"
    /\ UNCHANGED <<input, options, needle, fed, locked, buffer, lineOffset, matchCount,
                   delivered, early, ret, drains, uncapped>>

Next == StartStream \/ ReadChunk \/ ReadDone \/ ReadFail \/ CallLiteral \/ CallRegex

NextBuffer == CallLiteral \/ CallRegex

NextScan == CallFind \/ CallFindIgnoreCase

\* one call of an exported matcher: grepStream over a source that delivers input in
\* arbitrary chunks, or grepBufferLiteral / grepBufferRegex on input as a whole
Spec == Init /\ [][Next]_vars

\* one direct call of grepBufferLiteral or grepBufferRegex, over the richer inputs
SpecBuffer == InitBuffer /\ [][NextBuffer]_vars

\* one direct call of findPatternPositions or findPatternPositionsIgnoreCase
SpecScan == InitScan /\ [][NextScan]_vars

NextExtract == ExtractStart \/ ExtractStep

\* the exec loop of onlyMatching in grepBufferRegex, one evaluation of exec at a time
SpecExtract == InitExtract /\ [][NextExtract]_vars

NextBinary == CallIsBinary

\* one direct call of isBinaryChunk
SpecBinary == InitBinary /\ [][NextBinary]_vars

NextReuse == CallLiteral \/ CallRegex \/ CallOther \/ CallAgain

\* two direct calls of grepBufferLiteral or grepBufferRegex on the same buffer with
\* the same options object, with any number of calls on other buffers in between
SpecReuse == InitReuse /\ [][NextReuse]_vars

----------------------------------------------------------------------------
(* Vocabulary of the properties *)

\* the indices of the newline bytes of buf below the 0-based index end
NewlinesBefore(buf, end) == {i \in 0..(end - 1) : buf[i + 1] = NEWLINE}

\* the number of lines of buf: its newline bytes, plus one for a non-empty
\* unterminated last line
TotalLines(buf) ==
    Cardinality(NewlinesBefore(buf, Len(buf)))
    + (IF Len(buf) > 0 /\ buf[Len(buf)] # NEWLINE THEN 1 ELSE 0)

\* the line numbers carried by a sequence of results
LineNumbers(results) == {results[i].lineNumber : i \in 1..Len(results)}

\* consecutive results never go back in line number
Ascending(results) ==
    \A i \in 1..(Len(results) - 1) : results[i].lineNumber <= results[i + 1].lineNumber

StreamEnded == pc = "done"

----------------------------------------------------------------------------
(* The properties *)

\* C1: chunk-boundary independence.  For every non-empty input, every split of it
\* into chunks and every option set with maxCount = 0, the results grepStream has
\* passed to onResult when it ends are exactly the results of one call of
\* grepBufferLiteral (isLiteral) or grepBufferRegex on the whole input.
C1_ChunkIndependence ==
    (StreamEnded /\ options.maxCount = 0 /\ Len(input) > 0)
        => delivered = matchRegion(input, options)

\* C2 as stated: for every option set and every chunking, the lineCount grepStream
\* returns is the number of lines of the whole input.
C2_LineCountAnyOptions ==
    StreamEnded => ret.lineCount = TotalLines(input)

\* C2 as amended: the lineCount is the number of lines of the whole input whenever
\* grepStream runs to end-of-data (always so when maxCount = 0); when it returns
\* early at the maxCount cap, the lineCount is the number of newline bytes received
\* up to the end of the region in which the cap was reached.
C2_LineCount ==
    StreamEnded =>
        /\ ~early => ret.lineCount = TotalLines(input)
        /\ options.maxCount = 0 => ~early
        /\ early => ret.lineCount
                    = Cardinality(NewlinesBefore(input, fed - Len(buffer)))

\* C2 witness: a call that ran to end-of-data over three lines, the last one
\* unterminated, with results from an earlier region
C2_Witness ==
    /\ StreamEnded /\ ~early
    /\ ret.lineCount = 3
    /\ Len(buffer) > 0
    /\ Len(delivered) >= 2

C4_LockReleased ==
    /\ pc \in {"done", "failed"} => ~locked
    /\ pc = "failed" => ret = NoValue
    /\ pc = "reading" => locked

\* C4 witness: a read failed after bytes had been delivered and results reported
C4_Witness ==
    /\ pc = "failed" /\ ~locked
    /\ fed > 0
    /\ Len(delivered) > 0

\* C5: the results of every entry point are in ascending line-number order: those
\* passed to onResult across all regions of a stream, and those a direct call returns.
C5_Ascending ==
    /\ Ascending(delivered)
    /\ pc = "returned" => Ascending(out)

\* C5 witness: a stream ended whose last result came from the unterminated remainder,
\* after a result of an earlier region
C5_Witness ==
    /\ StreamEnded /\ ~early
    /\ Len(buffer) > 0 /\ lineOffset >= 2
    /\ Len(delivered) >= 2
    /\ delivered[Len(delivered)].lineNumber = lineOffset + 1
    /\ delivered[1].lineNumber <= lineOffset

\* the options with invertMatch off and the wholeWord and lineRegexp filters off
rawForward(opts) ==
    [opts EXCEPT !.invertMatch = FALSE, !.wholeWord = FALSE, !.lineRegexp = FALSE]

\* C6: invert complement.  With maxCount = 0 and onlyMatching off, the line numbers
\* returned with invertMatch are exactly the line numbers 1..N of the buffer that the
\* same call without invertMatch (and without the wholeWord and lineRegexp filters)
\* does not return; for grepBufferLiteral and for grepBufferRegex.
C6_InvertComplement ==
    (pc = "returned" /\ options.invertMatch /\ options.maxCount = 0
     /\ ~options.onlyMatching)
        => LineNumbers(out)
           = (1..TotalLines(input)) \ LineNumbers(matchRegion(input, rawForward(options)))

\* C7: an empty buffer yields nothing: a direct call on a zero-length buffer returns
\* the empty list for every option set, and grepStream over a source that delivers
\* no bytes calls onResult zero times and returns matchCount = 0 and lineCount = 0.
C7_EmptyBuffer ==
    Len(input) = 0 =>
        /\ pc = "returned" => out = <<>>
        /\ StreamEnded => /\ delivered = <<>>
                          /\ ret = [matchCount |-> 0, lineCount |-> 0]

\* each element is greater than the one before it
StrictlyAscending(positions) ==
    \A i \in 1..(Len(positions) - 1) : positions[i] < positions[i + 1]

Elements(positions) == {positions[i] : i \in 1..Len(positions)}

\* a byte with only A-Z (65..90) folded to a-z, and only a-z raised to A-Z
FoldAZ(b) == IF b \in 65..90 THEN b + 32 ELSE b

RaiseAZ(b) == IF b \in 97..122 THEN b - 32 ELSE b

\* the pattern pat occurs in buf at the 0-based offset p, bytes folded when fold
OccursAt(buf, pat, p, fold) ==
    /\ p >= 0
    /\ p + Len(pat) <= Len(buf)
    /\ \A j \in 1..Len(pat) :
          IF fold THEN FoldAZ(buf[p + j]) = FoldAZ(pat[j]) ELSE buf[p + j] = pat[j]

\* C8: findPatternPositions returns, strictly ascending and without repetition,
\* exactly the offsets 0 <= i <= len(chunk) - len(pattern) at which the pattern
\* occurs as a contiguous byte run (overlapping occurrences and those at the two ends
\* included), and the empty list when the pattern is empty or longer than the chunk.
C8_FindPositions ==
    pc = "found" =>
        /\ StrictlyAscending(out)
        /\ IF Len(needle) = 0 \/ Len(needle) > Len(input)
           THEN out = <<>>
           ELSE Elements(out)
                = {i \in 0..(Len(input) - Len(needle)) :
                      SubSeq(input, i + 1, i + Len(needle)) = needle}

\* C8 witness: two overlapping occurrences, one at the start and one at the very end
C8_Witness ==
    /\ pc = "found"
    /\ Len(input) = 3 /\ Len(needle) = 2
    /\ out = <<0, 1>>

\* the byte before the occurrence and the byte after it, where there is one, are
\* not word bytes
NeighboursOk(buf, p, n) ==
    /\ p = 0 \/ ~isWordByte(buf[p])
    /\ p + n >= Len(buf) \/ ~isWordByte(buf[p + n + 1])

\* the 1-based number of the line in which the 0-based offset p lies
LineOfOffset(buf, p) == 1 + Cardinality(NewlinesBefore(buf, p))

\* the offsets at which the pattern of the options occurs in buf
Occurrences(buf, opts) ==
    {p \in 0..(Len(buf) - 1) :
        Len(encode(opts.pattern)) > 0
        /\ OccursAt(buf, encode(opts.pattern), p, opts.ignoreCase)}

\* C9: whole-word matching on the forward literal path (lineRegexp off, maxCount = 0).
\* A line is reported iff some occurrence of the pattern that starts on it has no word
\* byte immediately before it and none immediately after it, a missing neighbour
\* counting as satisfied; a failing occurrence does not stop a later one on the line.
C9_WholeWord ==
    (pc = "returned" /\ options.isLiteral /\ options.wholeWord
     /\ ~options.invertMatch /\ ~options.lineRegexp /\ options.maxCount = 0)
        => LineNumbers(out)
           = {LineOfOffset(input, p) :
                 p \in {q \in Occurrences(input, options) :
                           NeighboursOk(input, q, Len(encode(options.pattern)))}}

\* C9 witness: on one line an occurrence fails the test and a later one passes it,
\* and the line is reported
C9_Witness ==
    /\ pc = "returned" /\ options.isLiteral /\ options.wholeWord
    /\ ~options.invertMatch /\ ~options.lineRegexp /\ options.maxCount = 0
    /\ \E p, q \in Occurrences(input, options) :
          /\ p < q
          /\ LineOfOffset(input, p) = LineOfOffset(input, q)
          /\ ~NeighboursOk(input, p, Len(encode(options.pattern)))
          /\ NeighboursOk(input, q, Len(encode(options.pattern)))
          /\ LineOfOffset(input, q) \in LineNumbers(out)

\* C10: findPatternPositionsIgnoreCase returns, in ascending order, exactly the
\* offsets at which the window equals the pattern once only the bytes A-Z of both
\* are folded to a-z (every other byte, non-ASCII included, must be equal as it is),
\* and returns the same for the pattern written in upper or in lower case.
C10_FindIgnoreCase ==
    pc = "foundIgnoreCase" =>
        /\ StrictlyAscending(out)
        /\ IF Len(needle) = 0 THEN out = <<>>
           ELSE Elements(out)
                = {i \in 0..(Len(input) - Len(needle)) : OccursAt(input, needle, i, TRUE)}
        /\ out = findPatternPositionsIgnoreCase(input, [i \in 1..Len(needle) |-> RaiseAZ(needle[i])])
        /\ out = findPatternPositionsIgnoreCase(input, [i \in 1..Len(needle) |-> FoldAZ(needle[i])])

\* C10 witness: an upper-case letter of the pattern matched a lower-case byte, next
\* to a non-ASCII byte matched as it is, while the non-ASCII byte 32 above it in the
\* buffer was not taken for it
C10_Witness ==
    /\ pc = "foundIgnoreCase"
    /\ needle = <<65, 193>>
    /\ input = <<97, 193, 225>>
    /\ out = <<0>>

\* C11: determinism and statelessness.  For every buffer and options, the second of
\* two calls of grepBufferLiteral or grepBufferRegex returns the same ordered results
\* as the first, although both use the same options.regex object, whose lastIndex the
\* first call and the calls on other buffers made in between have moved.
C11_Deterministic ==
    pc = "repeated" => out = prev.results

\* C11 witness: the second call found the regex object with a lastIndex other than 0
\* and returned two results
C11_Witness ==
    /\ pc = "repeated" /\ ~options.isLiteral
    /\ prev.lastIndex > 0
    /\ Len(out) >= 2

\* the 0-based indices of the zero bytes of buf
ZeroIndices(buf) == {i \in 0..(Len(buf) - 1) : buf[i + 1] = 0}

\* C12: isBinaryChunk returns true iff one of the first min(length, 8192) bytes of the
\* chunk is zero: a zero byte at index 8192 or later alone does not make the chunk
\* binary, and an empty chunk is not binary.
C12_BinaryChunk ==
    pc = "classified" =>
        /\ out = (\E i \in ZeroIndices(input) : i < 8192)
        /\ (ZeroIndices(input) # {} /\ \A i \in ZeroIndices(input) : i >= 8192) => out = FALSE
        /\ Len(input) = 0 => out = FALSE

\* C12 witness: a chunk longer than 8192 bytes whose only zero bytes are at index 8192
\* and after it was classified as not binary
C12_Witness ==
    /\ pc = "classified"
    /\ Len(input) > 8192
    /\ ZeroIndices(input) = {8192, 8193}
    /\ out = FALSE

\* the bytes the source has delivered so far
Received == SubSeq(input, 1, fed)

\* the bytes of buf after its last newline byte, all of buf when it has none
AfterLastNewline(buf) ==
    LET nls == {i \in 1..Len(buf) : buf[i] = NEWLINE}
    IN IF nls = {} THEN buf
       ELSE SubSeq(buf, (CHOOSE i \in nls : \A j \in nls : j <= i) + 1, Len(buf))

\* C13: carry-over buffer invariant.  Whenever grepStream is about to request the next
\* chunk, its accumulation buffer holds no newline byte and is exactly the bytes
\* received so far that follow the last newline received (empty when the last byte
\* received was a newline or nothing was received).
C13_CarryOver ==
    pc = "reading" =>
        /\ \A i \in 1..Len(buffer) : buffer[i] # NEWLINE
        /\ buffer = AfterLastNewline(Received)
        /\ (fed = 0 \/ input[fed] = NEWLINE) => buffer = <<>>

\* C13 witness: after a region of two lines was matched, the buffer holds two bytes
\* of a line that is not yet terminated
C13_Witness ==
    /\ pc = "reading"
    /\ lineOffset = 2
    /\ Len(buffer) = 2
    /\ fed = Len(input)

\* a reader.read() is issued and answered
ReadIssued == ReadChunk \/ ReadDone \/ ReadFail

\* onResult is invoked
ResultDelivered == Next /\ delivered' # delivered

\* the number of onResult invocations has reached the cap
CapHit == options.maxCount > 0 /\ Len(delivered) >= options.maxCount

\* C14: immediate stop at the cap.  With maxCount > 0, once the number of onResult
\* invocations of grepStream has reached maxCount the call has ended: no further
\* onResult invocation and no further read of the source can happen.  For every
\* maxCount the running matchCount is the number of onResult invocations made, and so
\* is the matchCount the call returns.
C14_ImmediateStop ==
    /\ CapHit => /\ pc = "done"
                 /\ ~ENABLED ResultDelivered
                 /\ ~ENABLED ReadIssued
    /\ matchCount = Len(delivered)
    /\ StreamEnded => ret.matchCount = Len(delivered)

\* C14 witness: the call ended at the cap inside a region, with bytes of the source not
\* yet read and with results of the input that were never delivered
C14_Witness ==
    /\ StreamEnded /\ early
    /\ CapHit
    /\ fed < Len(input)
    /\ ret.matchCount = options.maxCount
    /\ Len(matchRegion(input, [options EXCEPT !.maxCount = 0])) > Len(delivered)

\* the source has signalled end-of-data to grepStream
EndOfData == StreamEnded /\ ~early

\* the moves of a call of grepStream: from the start to reading, and from reading to
\* the end or to the failure; a direct call goes from the start to its return
PcMoves ==
    {<<"idle", "reading">>, <<"reading", "done">>, <<"reading", "failed">>,
     <<"idle", "returned">>}

\* C15: stream driver state machine.  grepStream starts in reading and leaves reading
\* only to terminate; it turns to the final buffer only in the step in which the
\* source signals end-of-data, after every byte was received: the unterminated
\* remainder is matched exactly once when it is not empty and never when it is empty,
\* never while the call is reading, never when the call ends at the cap or fails, and
\* no read is issued once end-of-data has been signalled.
C15_StateMachine ==
    [][/\ pc' # pc => <<pc, pc'>> \in PcMoves
       /\ drains' # drains => /\ pc = "reading" /\ fed = Len(input)
                              /\ EndOfData'
                              /\ drains = 0
       /\ EndOfData => ~ReadIssued
       /\ pc' \in {"idle", "reading", "failed"} => drains' = 0
       /\ (StreamEnded' /\ early') => drains' = 0
       /\ EndOfData' => /\ fed' = Len(input)
                        /\ drains' = IF Len(buffer') > 0 THEN 1 ELSE 0
                        /\ buffer' = AfterLastNewline(input)]_vars

\* C15 witness: end-of-data came after a complete region had been matched, and the one
\* pass over the unterminated remainder delivered the last result
C15_Witness ==
    /\ EndOfData
    /\ drains = 1
    /\ lineOffset = 1
    /\ Len(delivered) = 2
    /\ delivered[2].lineNumber = 2

\* the bytes of buf around the 0-based offset p that lie after the last newline
\* before p and before the first newline at or after p
EnclosingLine(buf, p) ==
    LET before == {i \in 0..(p - 1) : buf[i + 1] = NEWLINE}
        after == {i \in p..(Len(buf) - 1) : buf[i + 1] = NEWLINE}
        first == IF before = {} THEN 0
                 ELSE (CHOOSE i \in before : \A j \in before : j <= i) + 1
        last == IF after = {} THEN Len(buf)
                ELSE CHOOSE i \in after : \A j \in after : i <= j
    IN SubSeq(buf, first + 1, last)

\* the offsets of the occurrences of the pattern that pass the wholeWord and
\* lineRegexp filters of the options
Accepted(buf, opts) ==
    {p \in Occurrences(buf, opts) :
        /\ opts.wholeWord => NeighboursOk(buf, p, Len(encode(opts.pattern)))
        /\ opts.lineRegexp => decode(EnclosingLine(buf, p)) = opts.pattern}

\* the result r carries the number of the line of buf in which the offset p lies, and
\* (unless onlyMatching replaces the content) the decoded bytes of that line
NumberedAt(r, buf, p, opts) ==
    /\ r.lineNumber = 1 + Cardinality(NewlinesBefore(buf, p))
    /\ ~opts.onlyMatching => r.content = decode(EnclosingLine(buf, p))

\* C16: line numbering on the forward literal path.  Each result of grepBufferLiteral
\* has as lineNumber 1 plus the number of newline bytes before an accepted match
\* position, and as content the bytes between the newlines (or buffer ends) that
\* enclose it; with maxCount = 0 every accepted position is accounted for.  Each
\* result grepStream delivers has as lineNumber 1 plus the number of newline bytes
\* that precede the match in the whole input received so far.
C16_LineNumbering ==
    (options.isLiteral /\ ~options.invertMatch) =>
        /\ pc = "returned" =>
              /\ \A k \in 1..Len(out) :
                    \E p \in Accepted(input, options) : NumberedAt(out[k], input, p, options)
              /\ options.maxCount = 0 =>
                    \A p \in Accepted(input, options) :
                       \E k \in 1..Len(out) : NumberedAt(out[k], input, p, options)
        /\ \A k \in 1..Len(delivered) :
              \E p \in Accepted(input, options) :
                 /\ p < fed
                 /\ NumberedAt(delivered[k], input, p, options)

\* C16 witness: a stream delivered a result for line 3 out of the unterminated
\* remainder, after two lines had been counted and a result delivered for line 1
C16_Witness ==
    /\ StreamEnded /\ options.isLiteral /\ ~options.invertMatch
    /\ lineOffset = 2 /\ drains = 1
    /\ Len(delivered) = 2
    /\ delivered[1].lineNumber = 1
    /\ delivered[2].lineNumber = 3

\* C17: at most one result per line on the literal path.  For every buffer and options
\* with isLiteral, in forward and in invert mode, with and without onlyMatching, no
\* two results of grepBufferLiteral carry the same lineNumber, however often the
\* pattern occurs in a line; with onlyMatching the one result of a matched line has
\* the literal pattern text as its content.
C17_OnePerLine ==
    (pc = "returned" /\ options.isLiteral) =>
        /\ \A i, j \in 1..Len(out) : i # j => out[i].lineNumber # out[j].lineNumber
        /\ (options.onlyMatching /\ ~options.invertMatch) =>
              \A k \in 1..Len(out) : out[k].content = options.pattern

\* C17 witness: with onlyMatching, a line in which the pattern occurs three times gave
\* one result, whose content is the pattern and not the line
C17_Witness ==
    /\ pc = "returned" /\ options.isLiteral
    /\ options.onlyMatching /\ ~options.invertMatch
    /\ Cardinality({p \in Accepted(input, options) : LineOfOffset(input, p) = 2}) = 3
    /\ out = <<[lineNumber |-> 2, content |-> options.pattern]>>
    /\ decode(EnclosingLine(input, Len(input) - 1)) # options.pattern

\* the numbers of the lines of buf in which the pattern occurs and whose decoded
\* content is the pattern text
WholeLines(buf, opts) ==
    {LineOfOffset(buf, p) :
        p \in {q \in Occurrences(buf, opts) : decode(EnclosingLine(buf, q)) = opts.pattern}}

\* C18: whole-line matching.  With lineRegexp on the forward literal path (maxCount = 0)
\* a line is reported iff the pattern occurs in it and the full decoded content of the
\* line is exactly the pattern text; a line whose content holds the pattern and more
\* is never reported.
C18_LineRegexp ==
    (pc = "returned" /\ options.isLiteral /\ options.lineRegexp
     /\ ~options.invertMatch /\ options.maxCount = 0) =>
        /\ LineNumbers(out) = WholeLines(input, options)
        /\ \A p \in Occurrences(input, options) :
              decode(EnclosingLine(input, p)) # options.pattern
                 => LineOfOffset(input, p) \notin LineNumbers(out)

\* C18 witness: of two lines that hold the pattern, the one that is the pattern was
\* reported and the one that holds it twice was not
C18_Witness ==
    /\ pc = "returned" /\ options.isLiteral /\ options.lineRegexp
    /\ ~options.invertMatch /\ options.maxCount = 0 /\ ~options.onlyMatching
    /\ input = <<97, 97, 10, 97>>
    /\ out = <<[lineNumber |-> 2, content |-> <<97>>]>>

\* the 1-based indices of the newline code units of the text
NewlineUnits(text) == {i \in 1..Len(text) : text[i] = NEWLINE}

\* the number of lines of a text: one more than its newlines, the empty piece after a
\* final newline not counted
TextLineCount(text) ==
    Cardinality(NewlineUnits(text))
    + (IF Len(text) > 0 /\ text[Len(text)] = NEWLINE THEN 0 ELSE 1)

\* line k of the text: the code units between its newlines number k - 1 and k
TextLine(text, k) ==
    LET nth(n) == CHOOSE i \in NewlineUnits(text) :
                     Cardinality({j \in NewlineUnits(text) : j <= i}) = n
        first == IF k = 1 THEN 1 ELSE nth(k - 1) + 1
        last == IF k <= Cardinality(NewlineUnits(text)) THEN nth(k) - 1 ELSE Len(text)
    IN SubSeq(text, first, last)

\* the pieces of the line that the regex can match: lit itself, or a run of lit[1]
IsFragment(regex, piece) ==
    IF regex.kind = "star" THEN \A i \in 1..Len(piece) : piece[i] = regex.lit[1]
    ELSE piece = regex.lit

\* the regex matches somewhere in the line
HasMatch(regex, line) ==
    \/ regex.kind = "star"
    \/ \E i \in 0..(Len(line) - Len(regex.lit)) :
          SubSeq(line, i + 1, i + Len(regex.lit)) = regex.lit

\* the results that carry the line number k, in order
ResultsOfLine(results, k) == SelectSeq(results, LAMBDA r : r.lineNumber = k)

\* C19: regex line selection.  grepBufferRegex splits the decoded buffer into lines at
\* the newlines, without the empty piece after a final newline, and with maxCount = 0
\* selects a line iff hasMatch # invertMatch.  A selected line gives one result per
\* extracted fragment only when onlyMatching is set and invertMatch is not; in every
\* other case, onlyMatching with invertMatch included, it gives exactly one result
\* with the full line as content.
C19_RegexSelection ==
    (pc = "returned" /\ ~options.isLiteral /\ options.maxCount = 0) =>
        LET text == decode(input) IN
        /\ LineNumbers(out)
           = {k \in 1..TextLineCount(text) :
                 HasMatch(options.regex, TextLine(text, k)) # options.invertMatch}
        /\ \A k \in LineNumbers(out) :
              LET line == TextLine(text, k)
                  mine == ResultsOfLine(out, k)
              IN IF options.onlyMatching /\ ~options.invertMatch
                 THEN \A n \in 1..Len(mine) : IsFragment(options.regex, mine[n].content)
                 ELSE mine = <<[lineNumber |-> k, content |-> line]>>

\* C19 witness: with onlyMatching and invertMatch together, the one line without a
\* match gave one result with the full line, and the final newline gave no line
C19_Witness ==
    /\ pc = "returned" /\ ~options.isLiteral /\ options.maxCount = 0
    /\ options.onlyMatching /\ options.invertMatch
    /\ input = <<97, 10, 239, 187, 191, 10>>
    /\ out = <<[lineNumber |-> 2, content |-> <<65279>>]>>

\* the sequence of the contents of the results, joined
RECURSIVE JoinedContents(_)
JoinedContents(results) ==
    IF results = <<>> THEN <<>>
    ELSE Head(results).content \o JoinedContents(Tail(results))

\* the indices 0..Len(line) at which the line does not go on with the code unit
EmptySpots(line, unit) ==
    {i \in 0..Len(line) : i = Len(line) \/ line[i + 1] # unit}

\* C20: only-matching extraction terminates.  For every line and every regex, the
\* exec loop of grepBufferRegex moves lastIndex forward in every iteration (one code
\* unit past an empty match) and so ends; when it has ended, the results are the
\* non-overlapping matches of the line from left to right, all with the line's
\* number: pieces the regex matches which, joined, are the matched code units of the
\* line in order, with one empty match where /a*/ finds nothing to take.
C20_ExtractionTerminates ==
    [][/\ (pc = "extracting" /\ pc' = "extracting") => lastIndex' > lastIndex
       /\ pc' = "extracted" =>
             LET line == regexLines(decode(input))[1] IN
             /\ \A n \in 1..Len(out') :
                   /\ out'[n].lineNumber = 1
                   /\ IsFragment(options.regex, out'[n].content)
             /\ JoinedContents(out') = SelectSeq(line, LAMBDA u : u = 97)
             /\ Cardinality({n \in 1..Len(out') : out'[n].content = <<>>})
                = IF options.regex.kind = "star"
                  THEN Cardinality(EmptySpots(line, 97)) ELSE 0]_vars

\* the first n elements of a sequence, all of it when it has fewer
FirstOf(seq, n) == SubSeq(seq, 1, IF n < Len(seq) THEN n ELSE Len(seq))

\* C21: the cap is a prefix.  For every input, chunking and option set with
\* maxCount = k > 0, the results grepStream has passed to onResult are, at every
\* moment and when the call has ended, the first min(k, n) of the n results that a
\* call with maxCount = 0 passes to onResult over the same chunks: at the end of the
\* data n counts all the results of that call, and at a return at the cap it counts
\* those of the chunks read so far, which that call goes on from.
C21_CapIsPrefix ==
    options.maxCount > 0 =>
        /\ delivered = FirstOf(uncapped, options.maxCount)
        /\ (StreamEnded /\ early) => Len(delivered) = options.maxCount

\* C21 witness: the call with maxCount = 2 returned at the cap inside the second
\* region, having delivered one result of the first region and the first of the two
\* results that the call with maxCount = 0 delivers for the second
C21_Witness ==
    /\ StreamEnded /\ early
    /\ options.maxCount = 2
    /\ lineOffset >= 1
    /\ Len(uncapped) = 3
    /\ Len(delivered) = 2
    /\ delivered[1].lineNumber <= lineOffset
    /\ delivered[2].lineNumber > lineOffset

====
